---- MODULE Spec2Model ----
(***************************************************************************)
(* Model of the SMS gateway's job queue (package queue) on top of the      *)
(* Modem capability contract (package modem).                              *)
(*                                                                         *)
(* A Job is a heap object: Enqueue allocates it and hands the same pointer *)
(* to the store (map id -> *Job) and to the channel (chan *Job).  heap is  *)
(* the sequence of allocated jobs, a pointer is an index into it.          *)
(* Every section of the code that runs under q.mu is one atomic action;    *)
(* the code between two such sections is a separate action, so that the    *)
(* goroutines (HTTP callers, worker, cleanup) interleave as they can.      *)
(*                                                                         *)
(* Spec and FairSpec are the queue over the outcomes of a send.  ApiSpec    *)
(* adds the handler of POST /api/send, CallerSpec the callers that keep     *)
(* what Get returned.  ModemSpec is the modem itself, GetStatus and SendSMS *)
(* of both variants step by step with the calls of two goroutines;          *)
(* ClassifySpec is the classification of the final response text of a      *)
(* send, over every text of a bounded length; ReadSpec is the poll for     *)
(* that text over every way the reads can cut what the modem transmits.    *)
(***************************************************************************)
EXTENDS Integers, Sequences, FiniteSets, TLC

\* Number of Enqueue calls made over a run (jobs ever allocated).
MaxJobs == 2
\* Largest queue capacity (-queue-size) the model is started with.
MaxBufferSize == 2
\* const jobRetention = 5 * time.Minute.  The model's clock counts retention
\* windows: one unit of now and of UpdatedAt is five minutes.
jobRetention == 1
\* The clock runs until a retention window has passed in full.  The code reads
\* the clock only in cleanup's UpdatedAt.Before(now - jobRetention), and times
\* 0..jobRetention+1 produce every outcome of that test for any set of jobs:
\* older than the window, exactly at its edge, inside it.
MaxTime == jobRetention + 1

StatusQueued == "queued"
StatusSending == "sending"
StatusSent == "sent"
StatusFailed == "failed"
JobStatus == {StatusQueued, StatusSending, StatusSent, StatusFailed}

\* The values generateID can return: hex.EncodeToString of 8 random bytes.
\* Two values stand for the 2^64; nothing in the code keeps two calls apart.
IDs == {"a1b2c3d4e5f67890", "0f1e2d3c4b5a6978"}
\* handleSendSMS answers 400 to an empty phone or message before it calls Enqueue,
\* so the jobs of the running program carry non-empty arguments.
Phones == {"+420123456789"}
Messages == {"hi"}
\* Message references the modem echoes after +CMGS:.
Refs == {"42"}

VARIABLES
    bufferSize, \* cap(q.jobs), fixed by New
    heap,       \* the allocated *Job objects, by pointer
    store,      \* q.store: id -> pointer
    jobs,       \* q.jobs: the buffered channel's content, oldest first
    enq,        \* the Enqueue calls in progress: pointer -> [pc, prev]
    wpc,        \* where the worker goroutine is
    cur,        \* the worker's local variable job (0: none)
    now,        \* time.Now()
    calls,      \* ghost: how many times SendSMS was invoked for each pointer
    order,      \* ghost: the pointers in the order they were pushed into the channel
    gone,       \* ghost: the ids for which Get has returned a terminal job
    ret,        \* what the step just taken returned to its API caller
    mu,         \* q.mu: who holds the store's lock ("": nobody)
    responded,  \* handleSendSMS: the accepted jobs whose 202 response is written
    held,       \* the copies Get has returned that a caller still holds
    variant,    \* which Modem is in use: "gsm" (GSMModem) or "sim" (SimulatorModem)
    mmu,        \* the modem's mu: the caller that holds it ("": nobody)
    port,       \* the callers that have the serial port open
    mpc,        \* the GetStatus or SendSMS call each caller is in, and where
    msgRef,     \* SimulatorModem.msgRef
    mret,       \* what the modem step just taken returned to its caller
    finalResp,  \* a final response text handed to the classification
    classified, \* what the classification made of finalResp
    chunks      \* what the reads of the port deliver next, one chunk per read

\* The state of the queue, and the state of its callers outside it.
queueVars == <<bufferSize, heap, store, jobs, enq, wpc, cur, now, calls, order, gone, ret, mu>>
callerVars == <<responded, held>>

modemVars == <<variant, mmu, port, mpc, msgRef, mret>>
classifyVars == <<finalResp, classified, chunks>>

vars == <<queueVars, callerVars, modemVars, classifyVars>>

\* *SendResult and *Job are pointers that may be nil: <<>> is nil, <<v>> points to v.
Nil == <<>>
Ptr(v) == <<v>>

SendResult(success, ref, error) ==
    [Success |-> success, MessageReference |-> ref, Error |-> error]

\* GSMModem.SendSMS: the (result, err) pairs its return statements produce.
\* The transport and the modem behind it decide which one.  Every fatal step
\* after the validation returns the same shape, result.Error set and a non-nil
\* error, with a text of its own ("modem not accessible", "modem not responding",
\* "failed to set SMS text mode", "not registered on network", "failed to
\* initiate SMS", "modem rejected the send command", "failed to write message
\* body", "modem returned an error"); the last one stands for them here.
GSMSendSMS(phoneNumber, message) ==
    IF phoneNumber = ""
    THEN {[result |-> Ptr(SendResult(FALSE, "", "")), err |-> "phone number is required"]}
    ELSE IF message = ""
    THEN {[result |-> Ptr(SendResult(FALSE, "", "")), err |-> "message is required"]}
    ELSE { [result |-> Ptr(SendResult(FALSE, "", "modem returned an error")),
            err |-> "modem returned an error: ERROR"],
           [result |-> Ptr(SendResult(TRUE, "", "")), err |-> ""],
           [result |-> Ptr(SendResult(TRUE, "", "uncertain result")), err |-> ""] }
         \cup { [result |-> Ptr(SendResult(TRUE, r, "")), err |-> ""] : r \in Refs }

\* SimulatorModem.SendSMS.
SimulatorSendSMS(phoneNumber, message) ==
    IF phoneNumber = ""
    THEN {[result |-> Ptr(SendResult(FALSE, "", "")), err |-> "phone number is required"]}
    ELSE IF message = ""
    THEN {[result |-> Ptr(SendResult(FALSE, "", "")), err |-> "message is required"]}
    ELSE { [result |-> Ptr(SendResult(TRUE, r, "")), err |-> ""] : r \in Refs }

\* q.modem.SendSMS: the Modem interface, implemented by the two variants.
SendSMS(phoneNumber, message) ==
    GSMSendSMS(phoneNumber, message) \cup SimulatorSendSMS(phoneNumber, message)

\* Enqueue's composite literal: the Job as it is when it enters the store.
\* (CreatedAt is written here and never read or written again; it is left out.)
NewJob(id, phone, message, t) ==
    [ID |-> id, Phone |-> phone, Message |-> message, Status |-> StatusQueued,
     Result |-> Nil, Error |-> "", UpdatedAt |-> t]

Terminal(s) == s = StatusSent \/ s = StatusFailed

\* delete(m, k)
Delete(m, k) == [x \in (DOMAIN m) \ {k} |-> m[x]]
\* m[k] = v
Put(m, k, v) == [x \in (DOMAIN m) \cup {k} |-> IF x = k THEN v ELSE m[x]]

Range(f) == {f[k] : k \in DOMAIN f}

\* A *Job is alive while the store, the channel, the worker or an Enqueue call
\* in progress holds the pointer.
Reachable(p, st, ch, c, e) ==
    p \in Range(st) \/ p \in Range(ch) \/ p = c \/ p \in DOMAIN e

\* A job nothing points to any more is garbage: none of its fields can be read
\* or written again.  Its Status stays as the record of where it ended.
Collected(job) ==
    [ID |-> "", Phone |-> "", Message |-> "", Status |-> job.Status,
     Result |-> Nil, Error |-> "", UpdatedAt |-> 0]

Collect(h, st, ch, c, e) ==
    [p \in DOMAIN h |-> IF Reachable(p, st, ch, c, e) THEN h[p] ELSE Collected(h[p])]

Live(p) == p \in DOMAIN heap /\ Reachable(p, store, jobs, cur, enq)

\* No API call returned in the step just taken.
NoRet == [op |-> "none", id |-> "", ptr |-> 0, ok |-> FALSE, job |-> Nil]
\* Enqueue's return job, true (ptr is the pointer returned).
Accepted(p) == [op |-> "Enqueue", id |-> "", ptr |-> p, ok |-> TRUE, job |-> Nil]
\* Enqueue's return nil, false.
Rejected == [op |-> "Enqueue", id |-> "", ptr |-> 0, ok |-> FALSE, job |-> Nil]
\* Get's return nil.
NotFound(id) == [op |-> "Get", id |-> id, ptr |-> 0, ok |-> FALSE, job |-> Nil]
\* Get's return &cp (ptr: the stored job the copy was taken from).
Found(id, p, cp) == [op |-> "Get", id |-> id, ptr |-> p, ok |-> TRUE, job |-> Ptr(cp)]

\* q.mu with no holder.
Free == ""

\* q.mu.Lock(): the caller goes on once nobody holds the lock.
Lock(holder) == holder = Free

\* q.mu.Unlock(), also when deferred to the return.
Unlock == Free

\* The goroutines that call into the modem: the queue's worker and an HTTP
\* handler.
Callers == {"worker", "http"}
Variants == {"gsm", "sim"}
\* The arguments a caller can pass to SendSMS: the Modem interface takes any
\* string.
AnyPhones == Phones \cup {""}
AnyMessages == Messages \cup {""}

\* A text read from the port is a sequence of pieces: the markers and literals
\* the code looks for, single digits, separators and other words.  <<>> is "".
Digits == {"0", "1", "2", "3", "4", "5", "6", "7", "8", "9"}
DigitSeq == <<"0", "1", "2", "3", "4", "5", "6", "7", "8", "9">>
DigitVal(d) == (CHOOSE i \in DOMAIN DigitSeq : DigitSeq[i] = d) - 1

\* strings.Contains(resp, marker), for a marker that is one piece.
Contains(resp, marker) == \E i \in DOMAIN resp : resp[i] = marker

\* The longest run of digits of resp that starts at position i: what (\d+)
\* takes there.
RECURSIVE DigitRun(_, _)
DigitRun(resp, i) ==
    IF i \in DOMAIN resp /\ resp[i] \in Digits
    THEN <<resp[i]>> \o DigitRun(resp, i + 1)
    ELSE <<>>

\* The leftmost of the positions at which a pattern matches, 0 for no match.
Leftmost(positions) ==
    IF positions = {} THEN 0
    ELSE CHOOSE i \in positions : \A k \in positions : i <= k

\* regexp `\+CREG: \d,(\d)`, FindStringSubmatch: the captured digit as a text,
\* <<>> when there is no match.
FindCREG(resp) ==
    LET i == Leftmost({k \in DOMAIN resp :
                         /\ resp[k] = "+CREG: "
                         /\ k + 3 \in DOMAIN resp
                         /\ resp[k + 1] \in Digits
                         /\ resp[k + 2] = ","
                         /\ resp[k + 3] \in Digits})
    IN IF i = 0 THEN <<>> ELSE <<resp[i + 3]>>

\* regexp `\+CSQ: (\d+),`, FindStringSubmatch: the captured digits.
FindCSQ(resp) ==
    LET i == Leftmost({k \in DOMAIN resp :
                         /\ resp[k] = "+CSQ: "
                         /\ DigitRun(resp, k + 1) # <<>>
                         /\ k + 1 + Len(DigitRun(resp, k + 1)) \in DOMAIN resp
                         /\ resp[k + 1 + Len(DigitRun(resp, k + 1))] = ","})
    IN IF i = 0 THEN <<>> ELSE DigitRun(resp, i + 1)

\* regexp `\+CMGS: (\d+)`, FindStringSubmatch: the captured digits.
FindCMGS(resp) ==
    LET i == Leftmost({k \in DOMAIN resp :
                         /\ resp[k] = "+CMGS:"
                         /\ k + 1 \in DOMAIN resp
                         /\ resp[k + 1] = " "
                         /\ DigitRun(resp, k + 2) # <<>>})
    IN IF i = 0 THEN <<>> ELSE DigitRun(resp, i + 2)

\* Leading zeros removed.
RECURSIVE Significant(_)
Significant(ds) == IF ds # <<>> /\ Head(ds) = "0" THEN Significant(Tail(ds)) ELSE ds

RECURSIVE Decimal(_)
Decimal(ds) == IF ds = <<>> THEN 0 ELSE 10 * Decimal(SubSeq(ds, 1, Len(ds) - 1)) + DigitVal(ds[Len(ds)])

\* strconv.Atoi of a digit text: an int is 64 bits wide, so 20 significant
\* digits and more are out of range.  (The texts of the model have at most 3
\* significant digits, or at least 20.)
Atoi(ds) ==
    IF Len(Significant(ds)) >= 20
    THEN [val |-> 0, err |-> "value out of range"]
    ELSE [val |-> Decimal(Significant(ds)), err |-> ""]

\* GetStatus, the switch on the signal value.
SignalStrengthDesc(val) ==
    IF val = 99 THEN "unknown"
    ELSE IF val < 10 THEN "weak"
    ELSE IF val < 20 THEN "fair"
    ELSE IF val < 30 THEN "good"
    ELSE "excellent"

\* The lines of a text: the pieces between "\n".
RECURSIVE Lines(_)
Lines(resp) ==
    IF ~Contains(resp, "\n") THEN <<resp>>
    ELSE LET i == CHOOSE k \in DOMAIN resp : resp[k] = "\n" /\ \A j \in 1..(k - 1) : resp[j] # "\n"
         IN <<SubSeq(resp, 1, i - 1)>> \o Lines(SubSeq(resp, i + 1, Len(resp)))

\* strings.TrimSpace on a line: "\r" and " " at its ends removed.
RECURSIVE TrimSpace(_)
TrimSpace(line) ==
    IF line # <<>> /\ Head(line) \in {"\r", " "} THEN TrimSpace(Tail(line))
    ELSE IF line # <<>> /\ line[Len(line)] \in {"\r", " "}
         THEN TrimSpace(SubSeq(line, 1, Len(line) - 1))
         ELSE line

\* The pieces that begin with "AT": the commands, when the modem echoes them.
Echoes == {"AT", "AT+CGMI", "AT+CGMM"}

\* parseSimpleResponse: the first line that is not empty, not OK and not an
\* echoed command.
RECURSIVE FirstPlain(_)
FirstPlain(lines) ==
    IF lines = <<>> THEN <<>>
    ELSE LET line == TrimSpace(Head(lines)) IN
         IF line = <<>> \/ line = <<"OK">> \/ Head(line) \in Echoes
         THEN FirstPlain(Tail(lines))
         ELSE line

parseSimpleResponse(resp) == FirstPlain(Lines(resp))

\* What the modem can answer to each command within the deadline of readUntil:
\* the accumulated text sendAT returns.  <<>> is silence until the deadline.
Replies(cmd) ==
    CASE cmd = "AT" -> {<<"OK">>, <<"ERROR">>, <<>>}
      [] cmd = "AT+CMGF=1" -> {<<"OK">>, <<"ERROR">>}
      [] cmd = "AT+CSCS" -> {<<"OK">>, <<"ERROR">>, <<>>}
      [] cmd = "AT+CSMP" -> {<<"OK">>, <<"ERROR">>, <<>>}
      [] cmd = "AT+CGMI" -> {<<"AT+CGMI", "\r", "\n", "huawei", "\r", "\n", "OK">>, <<"ERROR">>,
                             <<>>}
      [] cmd = "AT+CGMM" -> {<<"E3372", "\n", "OK">>, <<"OK">>, <<"ERROR">>, <<>>}
      [] cmd = "AT+CREG?" -> {<<"+CREG: ", "0", ",", "1", "\n", "OK">>,
                              <<"+CREG: ", "0", ",", "5", "\n", "OK">>,
                              <<"+CREG: ", "0", ",", "2", "\n", "OK">>,
                              <<"+CREG: ", "\n", "OK">>,
                              <<"ERROR">>,
                              <<>>}
      [] cmd = "AT+CSQ" -> {<<"+CSQ: ", "5", ",", "9", "9", "\n", "OK">>,
                            <<"+CSQ: ", "1", "5", ",", "9", "9", "\n", "OK">>,
                            <<"+CSQ: ", "2", "5", ",", "9", "9", "\n", "OK">>,
                            <<"+CSQ: ", "3", "1", ",", "9", "9", "\n", "OK">>,
                            <<"+CSQ: ", "9", "9", ",", "9", "9", "\n", "OK">>,
                            <<"+CSQ: ", "1", "0", ",", "0", "\n", "OK">>,
                            <<"+CSQ: ", "0", "3", "0", ",", "0", "\n", "OK">>,
                            <<"+CSQ: ", "1", "9", "9", ",", "0", "\n", "OK">>,
                            <<"+CSQ: ">> \o [i \in 1..20 |-> "9"] \o <<",", "0", "\n", "OK">>,
                            <<"+CSQ: ", "1", "5">>,
                            <<"ERROR">>,
                            <<>>}

\* sendAT(port, cmd): the write fails, or the text readUntil has accumulated
\* comes back with a nil error.  ops: the writes and reads made on the port.
sendAT(cmd) ==
    {[resp |-> <<>>, err |-> "failed to write command", ops |-> 1]}
        \cup {[resp |-> r, err |-> "", ops |-> 2] : r \in Replies(cmd)}

\* The modem's answer to AT+CMGS="...": the text readUntil returns for the
\* markers ">" and "ERROR".
Prompts == {<<">">>, <<"ERROR">>, <<>>}

\* The ways the port's reads can cut a transmitted text: sequences of non-empty
\* chunks that make up the text, one chunk per port.Read with n > 0.
RECURSIVE Chunkings(_)
Chunkings(text) ==
    IF text = <<>>
    THEN {<<>>}
    ELSE UNION {{<<SubSeq(text, 1, k)>> \o rest :
                    rest \in Chunkings(SubSeq(text, k + 1, Len(text)))} :
                k \in 1..Len(text)}

\* readUntil: the text accumulated in response so far, the chunks the reads
\* to come deliver, the markers, and the number of reads that deliver
\* something before the cutoff.  Each chunk is appended; the text is returned
\* as soon as it holds a marker, or as it is at the cutoff.
RECURSIVE readUntil(_, _, _, _)
readUntil(response, reads, markers, deadline) ==
    IF deadline = 0 \/ reads = <<>>
    THEN response
    ELSE IF \E marker \in markers : Contains(response \o Head(reads), marker)
    THEN response \o Head(reads)
    ELSE readUntil(response \o Head(reads), Tail(reads), markers, deadline - 1)

\* The markers of the poll for the final response.
FinalMarkers == {"+CMGS:", "OK", "ERROR"}

\* What the modem can transmit once it has the message body.
FinalTransmissions ==
    {<<"+CMGS:", " ", "4", "2", "\n", "OK">>,
     <<"\n", "+CMGS:", " ", "4", "2", "\n", "OK">>,
     <<"OK">>, <<"ERROR">>, <<>>}

\* The modem's answer to the message body: the texts readUntil returns for the
\* markers "+CMGS:", "OK" and "ERROR", over the ways the reads cut the
\* transmission and the reads the 30 seconds leave time for.
FinalReplies ==
    {readUntil(<<>>, reads, FinalMarkers, deadline) :
        <<reads, deadline>> \in
            UNION {Chunkings(text) \X (0..Len(text)) : text \in FinalTransmissions}}

\* Status{}: the zero value.
EmptyStatus ==
    [Connected |-> FALSE, NetworkRegistered |-> FALSE, SignalStrength |-> 0,
     SignalStrengthDesc |-> "", Manufacturer |-> <<>>, Model |-> <<>>]

\* SimulatorModem.GetStatus: the fixed snapshot.
SimulatorStatus ==
    [Connected |-> TRUE, NetworkRegistered |-> TRUE, SignalStrength |-> 31,
     SignalStrengthDesc |-> "excellent", Manufacturer |-> <<"Simulator">>,
     Model |-> <<"Virtual Modem">>]

\* GetStatus, the registration step: what it makes of the answer to AT+CREG?.
Registered(out) == out.err = "" /\ FindCREG(out.resp) \in {<<"1">>, <<"5">>}

\* GetStatus, the signal step: the status after the answer to AT+CSQ.
WithSignal(status, out) ==
    IF out.err = "" /\ FindCSQ(out.resp) # <<>> /\ Atoi(FindCSQ(out.resp)).err = ""
    THEN [status EXCEPT !.SignalStrength = Atoi(FindCSQ(out.resp)).val,
                        !.SignalStrengthDesc = SignalStrengthDesc(Atoi(FindCSQ(out.resp)).val)]
    ELSE status

\* Classify with ERROR looked for before OK.
ClassifyErrorFirst(resp) ==
    IF FindCMGS(resp) # <<>>
    THEN [result |-> SendResult(TRUE, FindCMGS(resp), ""), err |-> ""]
    ELSE IF Contains(resp, "ERROR")
    THEN [result |-> SendResult(FALSE, <<>>, "modem returned an error"),
          err |-> "modem returned an error"]
    ELSE IF Contains(resp, "OK")
    THEN [result |-> SendResult(TRUE, <<>>, ""), err |-> ""]
    ELSE [result |-> SendResult(TRUE, <<>>, "uncertain result"), err |-> ""]

\* Classify with the uncertain outcome returned as an error.
ClassifyUncertainAsError(resp) ==
    IF FindCMGS(resp) # <<>>
    THEN [result |-> SendResult(TRUE, FindCMGS(resp), ""), err |-> ""]
    ELSE IF Contains(resp, "OK")
    THEN [result |-> SendResult(TRUE, <<>>, ""), err |-> ""]
    ELSE IF Contains(resp, "ERROR")
    THEN [result |-> SendResult(FALSE, <<>>, "modem returned an error"),
          err |-> "modem returned an error"]
    ELSE [result |-> SendResult(TRUE, <<>>, "uncertain result"), err |-> "uncertain result"]

\* GSMModem.SendSMS, from the final response text to the return: the result
\* and the error ("" for nil) it makes of finalResp.
Classify(resp) ==
    IF FindCMGS(resp) # <<>>
    THEN [result |-> SendResult(TRUE, FindCMGS(resp), ""), err |-> ""]
    ELSE IF Contains(resp, "OK")
    THEN [result |-> SendResult(TRUE, <<>>, ""), err |-> ""]
    ELSE IF Contains(resp, "ERROR")
    THEN [result |-> SendResult(FALSE, <<>>, "modem returned an error"),
          err |-> "modem returned an error"]
    ELSE [result |-> SendResult(TRUE, <<>>, "uncertain result"), err |-> ""]

\* Validate with nothing checked.
ValidateNothing(phoneNumber, message) == ""

\* GSMModem.SendSMS, the checks of its arguments: the error it returns, "" when
\* they pass.
Validate(phoneNumber, message) ==
    IF phoneNumber = "" THEN "phone number is required"
    ELSE IF message = "" THEN "message is required"
    ELSE ""

\* SimulatorModem.SendSMS, the checks of its arguments.
SimulatorValidate(phoneNumber, message) ==
    IF phoneNumber = "" THEN "phone number is required"
    ELSE IF message = "" THEN "message is required"
    ELSE ""

\* handleStatus answering 503 whenever GetStatus returns an error.
handleStatusErrorIs503(status, err) == IF err # "" THEN 503 ELSE 200

\* handleStatus: the HTTP status code it answers with for what GetStatus returned
\* (status is the *Status, err "" for nil).
handleStatus(status, err) ==
    IF err # ""
    THEN IF status = Nil THEN 503 ELSE 200
    ELSE 200

\* A caller that is in no call of the modem.
Idle ==
    [op |-> "", pc |-> "idle", phone |-> "", message |-> "", io |-> 0,
     status |-> EmptyStatus, result |-> SendResult(FALSE, <<>>, ""), log |-> <<>>]

\* No call of the modem returned in the step just taken.
NoReturn ==
    [caller |-> "", op |-> "none", phone |-> "", message |-> "", io |-> 0,
     status |-> Nil, result |-> Nil, err |-> "", http |-> 0, log |-> <<>>]

\* GetStatus returning (status, err) to caller c, handleStatus answering.
StatusReturn(c, status, err, io, log) ==
    [caller |-> c, op |-> "GetStatus", phone |-> "", message |-> "", io |-> io,
     status |-> Ptr(status), result |-> Nil, err |-> err,
     http |-> handleStatus(Ptr(status), err), log |-> log]

\* SendSMS returning (result, err) to caller c.
SendReturn(c, call, result, err, io, log) ==
    [caller |-> c, op |-> "SendSMS", phone |-> call.phone, message |-> call.message,
     io |-> io, status |-> Nil, result |-> Ptr(result), err |-> err, http |-> 0,
     log |-> log]

\* New: an empty channel of capacity bufferSize, an empty store, the worker
\* and the cleanup goroutine started.
QueueInit ==
    /\ bufferSize \in 1..MaxBufferSize
    /\ heap = <<>>
    /\ store = <<>>
    /\ jobs = <<>>
    /\ enq = <<>>
    /\ wpc = "recv"
    /\ cur = 0
    /\ now = 0
    /\ calls = <<>>
    /\ order = <<>>
    /\ gone = {}
    /\ ret = NoRet
    /\ mu = Free
    /\ responded = {}
    /\ held = <<>>

\* modem.New, NewSimulator: nobody is in a call, the port is closed.
ModemAtRest ==
    /\ mmu = Free
    /\ port = {}
    /\ mpc = [c \in Callers |-> Idle]
    /\ msgRef = 0
    /\ mret = NoReturn

ClassifyAtRest ==
    /\ finalResp = <<>>
    /\ classified = Nil
    /\ chunks = <<>>

\* main: the queue is built on modem.New, the hardware modem.
Init ==
    /\ QueueInit
    /\ variant = "gsm"
    /\ ModemAtRest
    /\ ClassifyAtRest

\* generateID: any 8 random bytes, hex-encoded; no check against the store.
generateID == IDs

\* The pointer the store holds under id, 0 when it holds none.
Stored(st, id) == IF id \in DOMAIN st THEN st[id] ELSE 0

\* Enqueue, first half: build the job, then q.mu.Lock(); q.store[job.ID] = job;
\* q.mu.Unlock().  The new pointer is the next free index of heap.
\* enq[p].pc is where the call is; enq[p].prev is a ghost: the pointer the map
\* assignment overwrote (0: none).
EnqueueStore(phone, message) ==
    /\ Lock(mu)
    /\ Len(heap) < MaxJobs
    /\ \E id \in generateID :
         LET p == Len(heap) + 1 IN
         /\ store' = Put(store, id, p)
         /\ enq' = Put(enq, p, [pc |-> "select", prev |-> Stored(store, id)])
         /\ heap' = Collect(Append(heap, NewJob(id, phone, message, now)),
                            store', jobs, cur, enq')
         /\ calls' = Append(calls, 0)
    /\ ret' = NoRet
    /\ mu' = Unlock
    /\ UNCHANGED <<bufferSize, jobs, wpc, cur, now, order, gone>>
    /\ UNCHANGED <<callerVars, modemVars, classifyVars>>

\* HasRoom with the job the worker is busy with counted against the capacity.
HasRoomCountsInFlight(ch, capacity) ==
    Len(ch) + (IF wpc = "recv" THEN 0 ELSE 1) < capacity

\* case q.jobs <- job: a buffered channel takes the value iff it is not full.
HasRoom(ch, capacity) == Len(ch) < capacity

\* Enqueue's select: the non-blocking send on q.jobs.  With room in the buffer
\* the call returns (job, true); otherwise it goes on to the default branch.
EnqueueSelect(p) ==
    /\ p \in DOMAIN enq
    /\ enq[p].pc = "select"
    /\ IF HasRoom(jobs, bufferSize)
       THEN /\ jobs' = Append(jobs, p)
            /\ order' = Append(order, p)
            /\ enq' = Delete(enq, p)
            /\ ret' = Accepted(p)
       ELSE /\ enq' = [enq EXCEPT ![p].pc = "delete"]
            /\ ret' = NoRet
            /\ UNCHANGED <<jobs, order>>
    /\ UNCHANGED <<bufferSize, heap, store, wpc, cur, now, calls, gone, mu>>
    /\ UNCHANGED <<callerVars, modemVars, classifyVars>>

\* Enqueue's default branch: q.mu.Lock(); delete(q.store, job.ID); q.mu.Unlock();
\* return nil, false.
EnqueueReject(p) ==
    /\ Lock(mu)
    /\ p \in DOMAIN enq
    /\ enq[p].pc = "delete"
    /\ store' = Delete(store, heap[p].ID)
    /\ enq' = Delete(enq, p)
    /\ heap' = Collect(heap, store', jobs, cur, enq')
    /\ ret' = Rejected
    /\ mu' = Unlock
    /\ UNCHANGED <<bufferSize, jobs, wpc, cur, now, calls, order, gone>>
    /\ UNCHANGED <<callerVars, modemVars, classifyVars>>

\* Get's copy of the stored job: cp := *job, and a copy of *job.Result when
\* there is one.  The copy is a value of its own.
CopyJob(job) == job

\* Get's test for a completed job.
Completed(job) == job.Status = StatusSent \/ job.Status = StatusFailed

\* Get(id), the whole call under q.mu.
Get(id) ==
    /\ Lock(mu)
    /\ IF id \notin DOMAIN store
       THEN /\ ret' = NotFound(id)
            /\ UNCHANGED <<store, gone>>
       ELSE LET job == heap[store[id]] IN
            /\ ret' = Found(id, store[id], CopyJob(job))
            /\ store' = IF Completed(job) THEN Delete(store, id) ELSE store
            /\ gone' = IF Completed(job) THEN gone \cup {id} ELSE gone
    /\ heap' = Collect(heap, store', jobs, cur, enq)
    /\ mu' = Unlock
    /\ UNCHANGED <<bufferSize, jobs, enq, wpc, cur, now, calls, order>>
    /\ UNCHANGED <<callerVars, modemVars, classifyVars>>

\* Receive handing out the newest value instead of the oldest.
ReceiveNewest(ch) == [job |-> ch[Len(ch)], rest |-> SubSeq(ch, 1, Len(ch) - 1)]

\* for job := range q.jobs: the channel hands out its oldest value.
Receive(ch) == [job |-> Head(ch), rest |-> Tail(ch)]

\* worker: one receive from q.jobs.
WorkerReceive ==
    /\ wpc = "recv"
    /\ jobs # <<>>
    /\ cur' = Receive(jobs).job
    /\ jobs' = Receive(jobs).rest
    /\ wpc' = "process"
    /\ ret' = NoRet
    /\ UNCHANGED <<bufferSize, heap, store, enq, now, calls, order, gone, mu>>
    /\ UNCHANGED <<callerVars, modemVars, classifyVars>>

\* Sending without the status assignment.
SendingStatusSkipped(job, t) == [job EXCEPT !.UpdatedAt = t]

\* process, what its first locked section writes to the job.
Sending(job, t) == [job EXCEPT !.Status = StatusSending, !.UpdatedAt = t]

\* process keeping q.mu from its first locked section on, over the send.
LockKeptDuringSend == "worker"

\* process, the q.mu.Unlock() that ends its first locked section, before the
\* call of SendSMS.
UnlockBeforeSend == Unlock

\* process, first locked section.
ProcessStart ==
    /\ Lock(mu)
    /\ wpc = "process"
    /\ heap' = [heap EXCEPT ![cur] = Sending(heap[cur], now)]
    /\ wpc' = "call"
    /\ ret' = NoRet
    /\ mu' = UnlockBeforeSend
    /\ UNCHANGED <<bufferSize, store, jobs, enq, cur, now, calls, order, gone>>
    /\ UNCHANGED <<callerVars, modemVars, classifyVars>>

\* process: the call q.modem.SendSMS(job.Phone, job.Message) is made.
ProcessCall ==
    /\ wpc = "call"
    /\ calls' = [calls EXCEPT ![cur] = @ + 1]
    /\ wpc' = "send"
    /\ ret' = NoRet
    /\ UNCHANGED <<bufferSize, heap, store, jobs, enq, cur, now, order, gone, mu>>
    /\ UNCHANGED <<callerVars, modemVars, classifyVars>>

\* Finished with the result recorded on success only.
FinishedResultOnSuccessOnly(job, out, t) ==
    IF out.err # ""
    THEN [job EXCEPT !.UpdatedAt = t, !.Status = StatusFailed, !.Error = out.err]
    ELSE [job EXCEPT !.Result = out.result, !.UpdatedAt = t, !.Status = StatusSent]

\* Finished with the status left as it is when the send failed.
FinishedStatusKeptOnError(job, out, t) ==
    IF out.err # ""
    THEN [job EXCEPT !.Result = out.result, !.UpdatedAt = t, !.Error = out.err]
    ELSE [job EXCEPT !.Result = out.result, !.UpdatedAt = t, !.Status = StatusSent]

\* What process writes to the job once SendSMS has returned out.
Finished(job, out, t) ==
    IF out.err # ""
    THEN [job EXCEPT !.Result = out.result, !.UpdatedAt = t,
                     !.Status = StatusFailed, !.Error = out.err]
    ELSE [job EXCEPT !.Result = out.result, !.UpdatedAt = t,
                     !.Status = StatusSent]

\* AfterProcess with the worker ending on a failed send.
AfterProcessStopsOnError(out) == IF out.err # "" THEN "stopped" ELSE "recv"

\* AfterProcess with a failed send submitted again.
AfterProcessRetriesOnError(out) == IF out.err # "" THEN "call" ELSE "recv"

\* Where the worker goes when process returns: back to the range loop's receive,
\* whatever the send returned.
AfterProcess(out) == "recv"

\* process, from the return of SendSMS to the end: the second locked section.
ProcessFinish ==
    /\ Lock(mu)
    /\ wpc = "send"
    /\ \E out \in SendSMS(heap[cur].Phone, heap[cur].Message) :
         /\ wpc' = AfterProcess(out)
         /\ cur' = IF wpc' = "recv" THEN 0 ELSE cur
         /\ heap' = Collect([heap EXCEPT ![cur] = Finished(heap[cur], out, now)],
                            store, jobs, cur', enq)
    /\ ret' = NoRet
    /\ mu' = Unlock
    /\ UNCHANGED <<bufferSize, store, jobs, enq, now, calls, order, gone>>
    /\ UNCHANGED <<callerVars, modemVars, classifyVars>>

\* Expired with a job last updated exactly at the cutoff taken as well.
ExpiredAtCutoff(job, cutoff) ==
    (job.Status = StatusSent \/ job.Status = StatusFailed) /\ job.UpdatedAt <= cutoff

\* cleanup's test on one store entry.
Expired(job, cutoff) ==
    (job.Status = StatusSent \/ job.Status = StatusFailed) /\ job.UpdatedAt < cutoff

\* cleanup's log line "queue cleanup: removed %d completed job(s)", written
\* when the sweep has removed at least one job.
Swept == [op |-> "cleanup", id |-> "", ptr |-> 0, ok |-> TRUE, job |-> Nil]

\* cleanup: one tick of the ticker, the sweep under q.mu.
Cleanup ==
    /\ Lock(mu)
    /\ LET cutoff == now - jobRetention IN
       store' = [id \in {k \in DOMAIN store : ~Expired(heap[store[k]], cutoff)} |-> store[id]]
    /\ heap' = Collect(heap, store', jobs, cur, enq)
    /\ ret' = IF DOMAIN store' # DOMAIN store THEN Swept ELSE NoRet
    /\ mu' = Unlock
    /\ UNCHANGED <<bufferSize, jobs, enq, wpc, cur, now, calls, order, gone>>
    /\ UNCHANGED <<callerVars, modemVars, classifyVars>>

\* Time passes.
Tick ==
    /\ now < MaxTime
    /\ now' = now + 1
    /\ ret' = NoRet
    /\ UNCHANGED <<bufferSize, heap, store, jobs, enq, wpc, cur, calls, order, gone, mu>>
    /\ UNCHANGED <<callerVars, modemVars, classifyVars>>

\* Pending with the job the worker has picked up counted in.
PendingCountsInFlight == Len(jobs) + (IF cur # 0 THEN 1 ELSE 0)

\* Pending: len(q.jobs), read without q.mu.
Pending == Len(jobs)

\* handleSendSMS's 202 body: the status read from the job Enqueue returned and
\* the value of Pending().  (Its id field is job.ID, which Enqueue writes once,
\* before the pointer is shared; it is not carried here.)
Response202(p, status, pending) ==
    [op |-> "handleSendSMS", id |-> "", ptr |-> p, ok |-> TRUE,
     job |-> Ptr([Status |-> status, Pending |-> pending])]

\* handleSendSMS after Enqueue has returned (job, true): it reads job.Status,
\* with no lock, and writes the 202 response.  p is the job it was handed.
HandleSendSMS(p) ==
    /\ p \in Range(order)
    /\ p \notin responded
    /\ ret' = Response202(p, heap[p].Status, Pending)
    /\ responded' = responded \cup {p}
    /\ UNCHANGED <<bufferSize, heap, store, jobs, enq, wpc, cur, now, calls, order, gone, mu>>
    /\ UNCHANGED <<held, modemVars, classifyVars>>

\* Number of copies returned by Get that callers keep over a run.
MaxCopies == 1

\* CopyShares with the stored job itself returned: return job.
CopyIsStoredJob(p, cp) == [job |-> p, result |-> IF cp.Result # Nil THEN p ELSE 0]

\* Where the memory of what Get returns lies, for a copy taken from the stored
\* job p: job is the stored job whose struct the returned *Job points to,
\* result the stored job whose SendResult cp.Result points to, 0 for memory
\* of the copy's own.  cp := *job is a new struct, and cp.Result is pointed to
\* resultCopy, a new SendResult.
CopyShares(p, cp) == [job |-> 0, result |-> 0]

\* A caller keeps the job Get has just returned to it (of: the stored job it
\* was copied from).
CallerHold ==
    /\ ret.op = "Get" /\ ret.ok
    /\ Len(held) < MaxCopies
    /\ held' = Append(held, [job |-> ret.job[1], of |-> ret.ptr,
                             shares |-> CopyShares(ret.ptr, ret.job[1])])
    /\ ret' = NoRet
    /\ UNCHANGED <<bufferSize, heap, store, jobs, enq, wpc, cur, now, calls, order, gone, mu>>
    /\ UNCHANGED <<responded, modemVars, classifyVars>>

\* The assignments a caller makes through the *Job it holds: to a field of the
\* job, or to a field of the SendResult its Result points to.
Writes == {[field |-> "Status", val |-> StatusFailed],
           [field |-> "Result.Error", val |-> "edited"]}

\* The job after the assignment w.
Written(job, w) ==
    CASE w.field = "Status" -> [job EXCEPT !.Status = w.val]
      [] w.field = "Result.Error" -> [job EXCEPT !.Result = Ptr([@[1] EXCEPT !.Error = w.val])]

\* The stored job the assignment w through the copy c lands in, 0 when it
\* lands in memory of the copy's own.
Target(c, w) == IF w.field = "Result.Error" THEN c.shares.result ELSE c.shares.job

\* A caller assigns through the k-th copy it holds.
CallerWrite(k, w) ==
    /\ k \in DOMAIN held
    /\ w.field = "Result.Error" => held[k].job.Result # Nil
    /\ held' = [held EXCEPT ![k].job = Written(@, w)]
    /\ heap' = [p \in DOMAIN heap |->
                  IF p = Target(held[k], w) /\ Live(p) THEN Written(heap[p], w) ELSE heap[p]]
    /\ ret' = NoRet
    /\ UNCHANGED <<bufferSize, store, jobs, enq, wpc, cur, now, calls, order, gone, mu>>
    /\ UNCHANGED <<responded, modemVars, classifyVars>>

Next ==
    \/ \E phone \in Phones, message \in Messages : EnqueueStore(phone, message)
    \/ \E p \in DOMAIN enq : EnqueueSelect(p)
    \/ \E p \in DOMAIN enq : EnqueueReject(p)
    \/ \E id \in IDs : Get(id)
    \/ WorkerReceive
    \/ ProcessStart
    \/ ProcessCall
    \/ ProcessFinish
    \/ Cleanup
    \/ Tick

Spec == Init /\ [][Next]_vars

\* The goroutine scheduler runs the worker whenever it can take a step, and
\* every SendSMS call returns (its polls are bounded by deadlines).
FairSpec ==
    /\ Spec
    /\ WF_vars(WorkerReceive)
    /\ WF_vars(ProcessStart)
    /\ WF_vars(ProcessCall)
    /\ WF_vars(ProcessFinish)

\* The queue together with the HTTP handler of POST /api/send.
ApiNext ==
    \/ Next
    \/ \E p \in DOMAIN heap : HandleSendSMS(p)

ApiSpec == Init /\ [][ApiNext]_vars

\* The queue together with callers of Get that keep, and write to, what Get
\* returned.
CallerNext ==
    \/ Next
    \/ CallerHold
    \/ \E k \in DOMAIN held, w \in Writes : CallerWrite(k, w)

CallerSpec == Init /\ [][CallerNext]_vars

\* GetStatusLock with no lock taken.
GetStatusNoLock(holder) == TRUE

\* GSMModem.GetStatus: m.mu.Lock().
GetStatusLock(holder) == Lock(holder)

\* An operation on the port other than a poll (serial.Open, SetReadTimeout,
\* Write) with the error it returned, "" for nil.
PortOp(err) == [resp |-> <<>>, err |-> err, ops |-> 1]

\* A Write that succeeded and the text the poll after it returned.
Polled(resp) == [resp |-> resp, err |-> "", ops |-> 2]

\* openPort: what serial.Open returns.
serialOpen == {PortOp(""), PortOp("failed to open serial port")}

\* openPort: what port.SetReadTimeout returns.
SetReadTimeout == {PortOp(""), PortOp("failed to set read timeout")}

\* Close with the port left open.
CloseNothing(ports, c) == ports

\* port.Close(): the port of caller c is closed.
Close(ports, c) == ports \ {c}

\* The record of one operation on the port: the command and how it went.
Entry(cmd, out) == [cmd |-> cmd, resp |-> out.resp, err |-> out.err]

\* The operations of the call of caller c so far, with this one.
Logged(c, cmd, out) == Append(mpc[c].log, Entry(cmd, out))

\* The call of caller c goes on to pc, with status; the operation is recorded.
Goes(c, pc, status, cmd, out) ==
    /\ mpc' = [mpc EXCEPT ![c] = [@ EXCEPT !.pc = pc, !.status = status,
                                           !.io = @ + out.ops,
                                           !.log = Logged(c, cmd, out)]]
    /\ mret' = NoReturn
    /\ UNCHANGED mmu

\* The call of caller c returns r before the port is its own: the deferred
\* m.mu.Unlock() runs.
ReturnsUnlocked(c, r) ==
    /\ mpc' = [mpc EXCEPT ![c] = Idle]
    /\ mmu' = Unlock
    /\ mret' = r

\* The call of caller c returns r: the deferred port.Close() and m.mu.Unlock()
\* run.
Returns(c, r) ==
    /\ ReturnsUnlocked(c, r)
    /\ port' = Close(port, c)

\* What a step of the hardware modem leaves alone.
GSMFrame == UNCHANGED <<variant, msgRef, queueVars, callerVars, classifyVars>>

\* What GetStatus or SendSMS returns when openPort has failed.
NotAccessible(c, cmd, out) ==
    IF mpc[c].op = "GetStatus"
    THEN StatusReturn(c, mpc[c].status, "modem not accessible", mpc[c].io + out.ops,
                      Logged(c, cmd, out))
    ELSE SendReturn(c, mpc[c], SendResult(FALSE, <<>>, "modem not accessible"),
                    "modem not accessible", mpc[c].io + out.ops, Logged(c, cmd, out))

\* GSMModem.GetStatus is called: the lock is taken.
GetStatusCall(c) ==
    /\ variant = "gsm"
    /\ mpc[c].pc = "idle"
    /\ GetStatusLock(mmu)
    /\ mmu' = c
    /\ mpc' = [mpc EXCEPT ![c] = [Idle EXCEPT !.op = "GetStatus", !.pc = "open"]]
    /\ mret' = NoReturn
    /\ UNCHANGED port
    /\ GSMFrame

\* openPort, called by GetStatus or SendSMS: serial.Open.
openPortOpen(c) ==
    /\ mpc[c].pc = "open"
    /\ \E out \in serialOpen :
         IF out.err # ""
         THEN /\ ReturnsUnlocked(c, NotAccessible(c, "open", out))
              /\ UNCHANGED port
         ELSE /\ Goes(c, "timeout", mpc[c].status, "open", out)
              /\ port' = port \cup {c}
    /\ GSMFrame

\* openPort: port.SetReadTimeout; when it fails the port is closed and the
\* caller returns.
openPortSetReadTimeout(c) ==
    /\ mpc[c].pc = "timeout"
    /\ \E out \in SetReadTimeout :
         IF out.err # ""
         THEN /\ ReturnsUnlocked(c, NotAccessible(c, "timeout", out))
              /\ port' = Close(port, c)
         ELSE /\ Goes(c, "AT", mpc[c].status, "timeout", out)
              /\ UNCHANGED port
    /\ GSMFrame

\* Responding with any answer that came without a write error.
RespondingOnNoError(out) == out.err = ""

\* GetStatus, step 1: whether the modem answered AT.
Responding(out) == out.err = "" /\ Contains(out.resp, "OK")

\* GetStatus: AT, the one fatal step.
GetStatusAT(c) ==
    /\ mpc[c].op = "GetStatus" /\ mpc[c].pc = "AT"
    /\ \E out \in sendAT("AT") :
         IF ~Responding(out)
         THEN Returns(c, StatusReturn(c, mpc[c].status, "modem not responding",
                                      mpc[c].io + out.ops, Logged(c, "AT", out)))
         ELSE /\ Goes(c, "CGMI", [mpc[c].status EXCEPT !.Connected = TRUE], "AT", out)
              /\ UNCHANGED port
    /\ GSMFrame

\* GetStatus: AT+CGMI, the manufacturer.
GetStatusCGMI(c) ==
    /\ mpc[c].op = "GetStatus" /\ mpc[c].pc = "CGMI"
    /\ \E out \in sendAT("AT+CGMI") :
         Goes(c, "CGMM",
              IF out.err = "" /\ Contains(out.resp, "OK")
              THEN [mpc[c].status EXCEPT !.Manufacturer = parseSimpleResponse(out.resp)]
              ELSE mpc[c].status,
              "AT+CGMI", out)
    /\ UNCHANGED port
    /\ GSMFrame

\* GetStatus: AT+CGMM, the model.
GetStatusCGMM(c) ==
    /\ mpc[c].op = "GetStatus" /\ mpc[c].pc = "CGMM"
    /\ \E out \in sendAT("AT+CGMM") :
         Goes(c, "CREG",
              IF out.err = "" /\ Contains(out.resp, "OK")
              THEN [mpc[c].status EXCEPT !.Model = parseSimpleResponse(out.resp)]
              ELSE mpc[c].status,
              "AT+CGMM", out)
    /\ UNCHANGED port
    /\ GSMFrame

\* GetStatus: AT+CREG?, the network registration.
GetStatusCREG(c) ==
    /\ mpc[c].op = "GetStatus" /\ mpc[c].pc = "CREG"
    /\ \E out \in sendAT("AT+CREG?") :
         Goes(c, "CSQ",
              IF Registered(out)
              THEN [mpc[c].status EXCEPT !.NetworkRegistered = TRUE]
              ELSE mpc[c].status,
              "AT+CREG?", out)
    /\ UNCHANGED port
    /\ GSMFrame

\* GetStatus: AT+CSQ, the signal quality, and return status, nil.
GetStatusCSQ(c) ==
    /\ mpc[c].op = "GetStatus" /\ mpc[c].pc = "CSQ"
    /\ \E out \in sendAT("AT+CSQ") :
         Returns(c, StatusReturn(c, WithSignal(mpc[c].status, out), "",
                                 mpc[c].io + out.ops, Logged(c, "AT+CSQ", out)))
    /\ GSMFrame

\* SendSMS returns result (with result.Error set to text) and a non-nil error,
\* after the operation out.
Fails(c, text, cmd, out) ==
    Returns(c, SendReturn(c, mpc[c], SendResult(FALSE, <<>>, text), text,
                          mpc[c].io + out.ops, Logged(c, cmd, out)))

\* GSMModem.SendSMS is called: the lock is taken and the arguments are checked;
\* with an empty argument the call returns at once.
SendSMSCall(c, phoneNumber, message) ==
    /\ variant = "gsm"
    /\ mpc[c].pc = "idle"
    /\ Lock(mmu)
    /\ IF Validate(phoneNumber, message) # ""
       THEN /\ mret' = SendReturn(c, [phone |-> phoneNumber, message |-> message],
                                  SendResult(FALSE, <<>>, ""),
                                  Validate(phoneNumber, message), 0, <<>>)
            /\ mmu' = Unlock
            /\ UNCHANGED mpc
       ELSE /\ mmu' = c
            /\ mpc' = [mpc EXCEPT ![c] = [Idle EXCEPT !.op = "SendSMS", !.pc = "open",
                                                      !.phone = phoneNumber,
                                                      !.message = message]]
            /\ mret' = NoReturn
    /\ UNCHANGED port
    /\ GSMFrame

\* SendSMS step 1: AT.
SendSMSAT(c) ==
    /\ mpc[c].op = "SendSMS" /\ mpc[c].pc = "AT"
    /\ \E out \in sendAT("AT") :
         IF out.err # "" \/ ~Contains(out.resp, "OK")
         THEN Fails(c, "modem not responding", "AT", out)
         ELSE /\ Goes(c, "CMGF", mpc[c].status, "AT", out)
              /\ UNCHANGED port
    /\ GSMFrame

\* SendSMS step 2: AT+CMGF=1, text mode.
SendSMSCMGF(c) ==
    /\ mpc[c].op = "SendSMS" /\ mpc[c].pc = "CMGF"
    /\ \E out \in sendAT("AT+CMGF=1") :
         IF out.err # "" \/ ~Contains(out.resp, "OK")
         THEN Fails(c, "failed to set SMS text mode", "AT+CMGF=1", out)
         ELSE /\ Goes(c, "CSCS", mpc[c].status, "AT+CMGF=1", out)
              /\ UNCHANGED port
    /\ GSMFrame

\* SendSMS step 3: AT+CSCS="GSM", the answer is dropped.
SendSMSCSCS(c) ==
    /\ mpc[c].op = "SendSMS" /\ mpc[c].pc = "CSCS"
    /\ \E out \in sendAT("AT+CSCS") : Goes(c, "CSMP", mpc[c].status, "AT+CSCS", out)
    /\ UNCHANGED port
    /\ GSMFrame

\* SendSMS step 4: AT+CSMP=17,167,0,0, the answer is dropped.
SendSMSCSMP(c) ==
    /\ mpc[c].op = "SendSMS" /\ mpc[c].pc = "CSMP"
    /\ \E out \in sendAT("AT+CSMP") : Goes(c, "CREG", mpc[c].status, "AT+CSMP", out)
    /\ UNCHANGED port
    /\ GSMFrame

\* NotRegistered with every answer but a status digit 1 or 5 taken as not
\* registered.
NotRegisteredUnlessParsed(out) ==
    ~(out.err = "" /\ FindCREG(out.resp) \in {<<"1">>, <<"5">>})

\* SendSMS step 5, the test on the answer to AT+CREG?: a status digit was
\* parsed and it is neither 1 nor 5.
NotRegistered(out) ==
    out.err = "" /\ FindCREG(out.resp) # <<>> /\ FindCREG(out.resp) \notin {<<"1">>, <<"5">>}

\* SendSMS step 5: AT+CREG?; fatal only for a digit that is neither 1 nor 5.
SendSMSCREG(c) ==
    /\ mpc[c].op = "SendSMS" /\ mpc[c].pc = "CREG"
    /\ \E out \in sendAT("AT+CREG?") :
         IF NotRegistered(out)
         THEN Fails(c, "not registered on network", "AT+CREG?", out)
         ELSE /\ Goes(c, "CMGS", mpc[c].status, "AT+CREG?", out)
              /\ UNCHANGED port
    /\ GSMFrame

\* SendSMS step 6: AT+CMGS="<phone>" is written and the prompt polled for;
\* only ERROR in what the poll returned ends the call.
SendSMSCMGS(c) ==
    /\ mpc[c].op = "SendSMS" /\ mpc[c].pc = "CMGS"
    /\ \/ Fails(c, "failed to initiate SMS", "AT+CMGS", PortOp("write failed"))
       \/ \E prompt \in Prompts :
            IF Contains(prompt, "ERROR")
            THEN Fails(c, "modem rejected the send command", "AT+CMGS", Polled(prompt))
            ELSE /\ Goes(c, "body", mpc[c].status, "AT+CMGS", Polled(prompt))
                 /\ UNCHANGED port
    /\ GSMFrame

\* SendSMS step 7: the body and Ctrl+Z are written, the final response is
\* read and classified.
SendSMSBody(c) ==
    /\ mpc[c].op = "SendSMS" /\ mpc[c].pc = "body"
    /\ \/ Fails(c, "failed to write message body", "body", PortOp("write failed"))
       \/ \E resp \in FinalReplies :
            Returns(c, SendReturn(c, mpc[c], Classify(resp).result, Classify(resp).err,
                                  mpc[c].io + 2, Logged(c, "body", Polled(resp))))
    /\ GSMFrame

\* Largest value the simulator's reference counter reaches over a run.
MaxMsgRef == 2

\* fmt.Sprintf("%d", ref)
RECURSIVE Itoa(_)
Itoa(n) == IF n < 10 THEN <<DigitSeq[n + 1]>> ELSE Itoa(n \div 10) \o <<DigitSeq[(n % 10) + 1]>>

\* What a step of the simulator leaves alone.
SimulatorFrame == UNCHANGED <<variant, port, queueVars, callerVars, classifyVars>>

\* SimulatorModem.GetStatus.
SimulatorGetStatus(c) ==
    /\ variant = "sim"
    /\ mpc[c].pc = "idle"
    /\ mret' = StatusReturn(c, SimulatorStatus, "", 0, <<>>)
    /\ UNCHANGED <<mmu, mpc, msgRef>>
    /\ SimulatorFrame

\* SimulatorModem.SendSMS is called: the arguments are checked, then the call
\* sleeps.
SimulatorSendSMSCall(c, phoneNumber, message) ==
    /\ variant = "sim"
    /\ mpc[c].pc = "idle"
    /\ msgRef + Cardinality({d \in Callers : mpc[d].pc = "sleep"}) < MaxMsgRef
    /\ IF SimulatorValidate(phoneNumber, message) # ""
       THEN /\ mret' = SendReturn(c, [phone |-> phoneNumber, message |-> message],
                                  SendResult(FALSE, <<>>, ""),
                                  SimulatorValidate(phoneNumber, message), 0, <<>>)
            /\ UNCHANGED mpc
       ELSE /\ mpc' = [mpc EXCEPT ![c] = [Idle EXCEPT !.op = "SendSMS", !.pc = "sleep",
                                                      !.phone = phoneNumber,
                                                      !.message = message]]
            /\ mret' = NoReturn
    /\ UNCHANGED <<mmu, msgRef>>
    /\ SimulatorFrame

\* NextMsgRef with the counter left as it is.
MsgRefKept(ref) == ref

\* SimulatorModem.SendSMS: m.msgRef++.
NextMsgRef(ref) == ref + 1

\* SimulatorModem.SendSMS after the sleep: the next reference is taken under
\* m.mu and the call returns success.
SimulatorSendSMSRef(c) ==
    /\ mpc[c].op = "SendSMS" /\ mpc[c].pc = "sleep"
    /\ Lock(mmu)
    /\ msgRef' = NextMsgRef(msgRef)
    /\ mmu' = Unlock
    /\ mret' = SendReturn(c, mpc[c], SendResult(TRUE, Itoa(msgRef'), ""), "", 0, <<>>)
    /\ mpc' = [mpc EXCEPT ![c] = Idle]
    /\ SimulatorFrame

\* The modem with its callers, either variant.
ModemNext ==
    \E c \in Callers :
        \/ GetStatusCall(c)
        \/ openPortOpen(c)
        \/ openPortSetReadTimeout(c)
        \/ GetStatusAT(c)
        \/ GetStatusCGMI(c)
        \/ GetStatusCGMM(c)
        \/ GetStatusCREG(c)
        \/ GetStatusCSQ(c)
        \/ \E phoneNumber \in AnyPhones, message \in AnyMessages :
             SendSMSCall(c, phoneNumber, message)
        \/ SendSMSAT(c)
        \/ SendSMSCMGF(c)
        \/ SendSMSCSCS(c)
        \/ SendSMSCSMP(c)
        \/ SendSMSCREG(c)
        \/ SendSMSCMGS(c)
        \/ SendSMSBody(c)
        \/ SimulatorGetStatus(c)
        \/ \E phoneNumber \in AnyPhones, message \in AnyMessages :
             SimulatorSendSMSCall(c, phoneNumber, message)
        \/ SimulatorSendSMSRef(c)

ModemInit ==
    /\ QueueInit
    /\ variant \in Variants
    /\ ModemAtRest
    /\ ClassifyAtRest

ModemSpec == ModemInit /\ [][ModemNext]_vars

\* Longest final response text handed to the classification.
MaxRespLen == 4

\* The pieces a final response is made of.
FinalPieces == {"+CMGS:", " ", "4", "2", "OK", "ERROR", "\n"}

\* The texts of at most n pieces.
Texts(n) == UNION {[1..k -> FinalPieces] : k \in 0..n}

\* The classification of the final response text is made.
ClassifyFinal ==
    /\ classified = Nil
    /\ classified' = Ptr(Classify(finalResp))
    /\ UNCHANGED <<finalResp, chunks, queueVars, callerVars, modemVars>>

ClassifyInit ==
    /\ QueueInit
    /\ variant = "gsm"
    /\ ModemAtRest
    /\ finalResp \in Texts(MaxRespLen)
    /\ classified = Nil
    /\ chunks = <<>>

ClassifySpec == ClassifyInit /\ [][ClassifyFinal]_vars

\* The chunks still to come once the first n pieces have been read.
RECURSIVE Unread(_, _)
Unread(reads, n) ==
    IF n = 0 THEN reads ELSE Unread(Tail(reads), n - Len(Head(reads)))

\* SendSMS, finalResp := m.readUntil(...): the poll for the final response
\* runs over the chunks the reads deliver, for as many reads as the 30 seconds
\* leave time for; the chunks it has not read stay behind.
ReadFinal ==
    /\ classified = Nil
    /\ finalResp = <<>>
    /\ chunks # <<>>
    /\ \E deadline \in 1..Len(chunks) :
         /\ finalResp' = readUntil(<<>>, chunks, FinalMarkers, deadline)
         /\ chunks' = Unread(chunks, Len(finalResp'))
    /\ UNCHANGED <<classified, queueVars, callerVars, modemVars>>

\* The send from the write of the body on: the modem's transmission arrives
\* cut into chunks in any way.
ReadInit ==
    /\ QueueInit
    /\ variant = "gsm"
    /\ ModemAtRest
    /\ finalResp = <<>>
    /\ classified = Nil
    /\ chunks \in UNION {Chunkings(text) : text \in FinalTransmissions}

ReadNext == ReadFinal \/ ClassifyFinal

ReadSpec == ReadInit /\ [][ReadNext]_vars

----
\* The steps of an Enqueue call, as seen from outside.

\* The step is the store insert of a new call; its job is the newest pointer.
InsertStep == Len(heap') = Len(heap) + 1
\* The step is the select of call p.
SelectStep(p) ==
    /\ p \in DOMAIN enq /\ enq[p].pc = "select"
    /\ (p \notin DOMAIN enq' \/ enq'[p].pc = "delete")
\* The step is the return nil, false of call p.
RejectStep(p) == p \in DOMAIN enq /\ enq[p].pc = "delete" /\ p \notin DOMAIN enq'
\* The step is a Get call.
GetStep == ret'.op = "Get"

\* The pointers of the jobs Enqueue has rejected.
RejectedJobs == {p \in DOMAIN heap : p \notin DOMAIN enq /\ p \notin Range(order)}

\* C1: an Enqueue call made while the buffer has free capacity adds exactly one
\* entry to the store, under an ID that no other job has (no entry is replaced),
\* and the job it returns is queued and is the one the store holds under its ID.
C1_EnqueueAddsUniqueJob ==
    [][ /\ (InsertStep /\ HasRoom(jobs, bufferSize)) =>
             LET p == Len(heap') IN
             /\ heap'[p].ID \notin DOMAIN store
             /\ Cardinality(DOMAIN store') = Cardinality(DOMAIN store) + 1
             /\ \A q \in DOMAIN heap : Live(q) => heap[q].ID # heap'[p].ID
        /\ \A p \in DOMAIN enq : (SelectStep(p) /\ ret' = Accepted(p)) =>
             /\ heap'[p].Status = StatusQueued
             /\ Stored(store', heap'[p].ID) = p
             /\ \A q \in DOMAIN heap : (Live(q) /\ q # p) => heap[q].ID # heap[p].ID
      ]_vars

\* C2: an Enqueue call that finds the buffer full returns nil, false and leaves
\* the store as it was: its insert replaced no entry, and what it deletes is the
\* entry it inserted and nothing else.
C2_RejectLeavesStore ==
    [][ \A p \in DOMAIN enq :
          /\ (SelectStep(p) /\ ~HasRoom(jobs, bufferSize)) =>
               (enq'[p].pc = "delete" /\ jobs' = jobs /\ store' = store)
          /\ RejectStep(p) =>
               /\ ret' = Rejected
               /\ enq[p].prev = 0
               /\ Stored(store, heap[p].ID) = p
               /\ store' = Delete(store, heap[p].ID)
      ]_vars

\* C3: a job's status changes only queued -> sending, sending -> sent or
\* sending -> failed; sent and failed are final.
C3_StatusMonotonic ==
    [][ \A p \in DOMAIN heap :
          heap'[p].Status # heap[p].Status =>
            \/ heap[p].Status = StatusQueued /\ heap'[p].Status = StatusSending
            \/ heap[p].Status = StatusSending /\ heap'[p].Status = StatusSent
            \/ heap[p].Status = StatusSending /\ heap'[p].Status = StatusFailed
      ]_vars

\* Both final statuses have been reached through sending.
C3_Witness ==
    \E p, q \in DOMAIN heap :
        /\ heap[p].Status = StatusSent /\ heap[q].Status = StatusFailed
        /\ calls[p] = 1 /\ calls[q] = 1

\* C4: a Get that finds a sent or failed job returns it and deletes it, and
\* every later Get with that id reports not-found; a Get that finds a queued or
\* sending job returns it and leaves the store alone.
C4_GetReclaimsTerminal ==
    [][ GetStep =>
          LET id == ret'.id IN
          /\ id \in gone => ~ret'.ok
          /\ id \in DOMAIN store =>
               /\ ret'.ok
               /\ ret'.job = Ptr(heap[store[id]])
               /\ IF Terminal(heap[store[id]].Status)
                  THEN store' = Delete(store, id)
                  ELSE store' = store
      ]_vars

\* What C5 says of one job record.
ResultIffTerminal(job) == (job.Result # Nil) <=> Terminal(job.Status)

\* C5: a job carries a result exactly when its status is sent or failed, in the
\* store, in the channel, in the worker's hands and in every copy Get returns.
C5_ResultIffTerminal ==
    /\ \A p \in DOMAIN heap : Live(p) => ResultIffTerminal(heap[p])
    /\ (ret.op = "Get" /\ ret.ok) => ResultIffTerminal(ret.job[1])

\* Get has returned a failed job with its result while another job, without
\* one, is being sent.
C5_Witness ==
    /\ ret.op = "Get" /\ ret.ok
    /\ ret.job[1].Status = StatusFailed /\ ret.job[1].Result # Nil
    /\ \E p \in DOMAIN heap :
         Live(p) /\ heap[p].Status = StatusSending /\ heap[p].Result = Nil

\* The sends the queue has called and that have not returned.
SendsInFlight == {p \in DOMAIN heap : wpc = "send" /\ cur = p}

\* C6: at most one send is in flight and at most one job has status sending.
C6_OneSendInFlight ==
    /\ Cardinality(SendsInFlight) <= 1
    /\ Cardinality({p \in DOMAIN heap : heap[p].Status = StatusSending}) <= 1

\* A send is in flight while a finished job is in the store, another job waits
\* in the buffer or an Enqueue call is in progress.
C6_Witness ==
    /\ SendsInFlight # {}
    /\ \E p \in DOMAIN heap : p # cur /\ Terminal(heap[p].Status)
    /\ (jobs # <<>> \/ DOMAIN enq # {} \/ Len(heap) = MaxJobs)

\* C7: jobs are processed in the order they were pushed: when a job has left
\* queued, every job pushed before it is sent or failed.
C7_FIFO ==
    \A i, k \in DOMAIN order :
        (i < k /\ heap[order[k]].Status # StatusQueued) =>
            Terminal(heap[order[i]].Status)

\* The job pushed second is the one allocated first, and it is being sent
\* after the other one has finished.
C7_Witness ==
    /\ Len(order) >= 2
    /\ order[1] > order[2]
    /\ Terminal(heap[order[1]].Status)
    /\ heap[order[2]].Status = StatusSending

\* C8: every job pushed into the buffer ends sent or failed, also after failed
\* sends of earlier jobs; a failed job carries a non-empty error.
C8_AcceptedJobsFinish ==
    /\ \A p \in 1..MaxJobs :
         (p \in Range(order)) ~> (p \in DOMAIN heap /\ Terminal(heap[p].Status))
    /\ [](\A p \in DOMAIN heap :
            (Live(p) /\ heap[p].Status = StatusFailed) => heap[p].Error # "")

\* A job has ended sent or failed after an earlier job's send failed.
C8_Witness ==
    \E i, k \in DOMAIN order :
        /\ i < k
        /\ heap[order[i]].Status = StatusFailed
        /\ Terminal(heap[order[k]].Status)

\* C9: SendSMS is called at most once for a job, exactly once for a job that is
\* sent or failed, and never for a job Enqueue rejected.
C9_SendAtMostOnce ==
    \A p \in DOMAIN heap :
        /\ calls[p] <= 1
        /\ Terminal(heap[p].Status) => calls[p] = 1
        /\ p \in RejectedJobs => calls[p] = 0

\* One job has failed after its single send and another one was rejected.
C9_Witness ==
    /\ \E p \in DOMAIN heap : heap[p].Status = StatusFailed /\ calls[p] = 1
    /\ RejectedJobs # {}

\* Capacity 1, the worker inside the send of the job it picked up, the buffer
\* empty, and p the only Enqueue call in progress, at its select.
WorkerStalledAlone(p) ==
    /\ bufferSize = 1
    /\ wpc = "send"
    /\ cur # p
    /\ jobs = <<>>
    /\ DOMAIN enq = {p}

\* C10 as stated: in that situation the call is rejected and its job does not
\* enter the buffer.
C10_RejectedWhileWorkerStalled ==
    [][ \A p \in DOMAIN enq :
          (WorkerStalledAlone(p) /\ SelectStep(p)) =>
              (ret' # Accepted(p) /\ jobs' = <<>>)
      ]_vars

\* C10, amended: in that situation the call is accepted: it returns its job,
\* queued, the job is in the buffer, and the store is left as it is.
C10_AcceptedWhileWorkerStalled ==
    [][ \A p \in DOMAIN enq :
          (WorkerStalledAlone(p) /\ SelectStep(p)) =>
              /\ ret' = Accepted(p)
              /\ jobs' = <<p>>
              /\ heap'[p].Status = StatusQueued
              /\ store' = store
      ]_vars

\* With capacity 1, Enqueue has just accepted a job while the worker is inside
\* the send of another one.
C10_Witness ==
    /\ bufferSize = 1
    /\ wpc = "send"
    /\ ret.op = "Enqueue" /\ ret.ok
    /\ jobs = <<ret.ptr>>
    /\ cur # ret.ptr

\* C11: the status in the 202 response of POST /api/send is queued, however the
\* handler's read of job.Status falls among the worker's steps.
C11_ResponseStatusQueued ==
    ret.op = "handleSendSMS" => ret.job[1].Status = StatusQueued

\* The entries of the store a sweep at time t has to remove.
Due(t) ==
    {id \in DOMAIN store :
        /\ Terminal(heap[store[id]].Status)
        /\ heap[store[id]].UpdatedAt < t - jobRetention}

\* C12: a sweep removes the sent and failed jobs last updated before the sweep
\* time minus the retention window, all of them and nothing else.
C12_SweepRemovesExpired ==
    [][ Cleanup =>
          /\ DOMAIN store' = DOMAIN store \ Due(now)
          /\ \A id \in DOMAIN store' : store'[id] = store[id]
      ]_vars

\* A sweep has just removed a job while it kept a finished job last updated
\* exactly one retention window ago and a job that is not finished.
C12_Witness ==
    /\ ret = Swept
    /\ \E id \in DOMAIN store :
         /\ Terminal(heap[store[id]].Status)
         /\ heap[store[id]].UpdatedAt = now - jobRetention

\* The step is an assignment a caller makes through a copy it holds.
CallerWriteStep == Len(held') = Len(held) /\ held' # held

\* What a caller reads through the copy c: the memory of the stored job where
\* the copy points into one, the copy's own otherwise.
SeenBy(c) ==
    IF c.shares.job # 0 /\ Live(c.shares.job) THEN heap[c.shares.job]
    ELSE IF c.shares.result # 0 /\ Live(c.shares.result)
         THEN [c.job EXCEPT !.Result = heap[c.shares.result].Result]
         ELSE c.job

\* C13: an assignment through a job returned by Get changes no stored job, the
\* store, nor what a later Get returns; a step of the worker changes no copy
\* returned before.
C13_DefensiveCopy ==
    [][ /\ CallerWriteStep =>
             /\ heap' = heap /\ store' = store
             /\ \A id \in DOMAIN store : CopyJob(heap'[store'[id]]) = CopyJob(heap[store[id]])
        /\ wpc' # wpc => \A k \in DOMAIN held : SeenBy(held[k])' = SeenBy(held[k])
      ]_vars

\* A caller holds a copy taken before the job was sent and has set the copy's
\* status to failed; the job, sent since, is in the store with its own status
\* and result.
C13_Witness ==
    \E k \in DOMAIN held :
        LET p == held[k].of IN
        /\ Live(p) /\ Stored(store, heap[p].ID) = p
        /\ held[k].job.Status = StatusFailed /\ held[k].job.Result = Nil
        /\ heap[p].Status = StatusSent /\ heap[p].Result # Nil

\* C14: while a send is in progress nobody holds q.mu, so Get, every step of
\* an Enqueue call in progress and a new Enqueue call can go on, also with the
\* buffer full; Pending takes no lock.
C14_NoWaitForSend ==
    (wpc = "call" \/ wpc = "send") =>
        /\ mu = Free
        /\ \A id \in IDs : ENABLED Get(id)
        /\ \A p \in DOMAIN enq : ENABLED (EnqueueSelect(p) \/ EnqueueReject(p))
        /\ Len(heap) < MaxJobs =>
             \A phone \in Phones, message \in Messages : ENABLED EnqueueStore(phone, message)
        /\ Pending \in 0..bufferSize

\* A send is in progress, the buffer is full, and Get has just returned the job
\* that is being sent.
C14_Witness ==
    /\ wpc = "send"
    /\ Len(jobs) = bufferSize
    /\ ret.op = "Get" /\ ret.ok /\ ret.ptr = cur
    /\ ret.job[1].Status = StatusSending

\* C15: Pending is the number of accepted jobs the worker has not picked up
\* (the job in the worker's hands and the finished jobs are not counted), and
\* lies between 0 and the capacity.
C15_PendingCountsBuffered ==
    /\ Pending = Cardinality({p \in Range(order) : heap[p].Status = StatusQueued /\ p # cur})
    /\ Pending >= 0
    /\ Pending <= bufferSize

\* The buffer is full while the worker is inside the send of another job.
C15_Witness ==
    /\ Pending = bufferSize
    /\ wpc = "send"
    /\ heap[cur].Status = StatusSending

\* C16: a SendSMS call with an empty phone number or an empty message returns
\* an error without one operation on the transport (no open, write or read), in
\* the hardware modem and in the simulator, no such call gets past the checks,
\* and process makes a failed job of what it returned.
C16_ValidationWithoutIO ==
    /\ \A c \in Callers :
         mpc[c].op = "SendSMS" => (mpc[c].phone # "" /\ mpc[c].message # "")
    /\ (mret.op = "SendSMS" /\ (mret.phone = "" \/ mret.message = "")) =>
         /\ mret.io = 0
         /\ mret.caller \notin port
         /\ mret.err # ""
         /\ ~mret.result[1].Success
         /\ \A id \in IDs :
              Finished(NewJob(id, mret.phone, mret.message, 0),
                       [result |-> mret.result, err |-> mret.err], 0).Status = StatusFailed

\* The hardware modem has just turned down a send with an empty message.
C16_Witness ==
    /\ variant = "gsm"
    /\ mret.op = "SendSMS"
    /\ mret.phone # "" /\ mret.message = ""
    /\ mret.err = "message is required"
    /\ mret.io = 0

\* ref is a numeric reference of text t: the digits that follow "+CMGS: " at
\* position i, up to the first piece that is not a digit.
ReferenceAt(t, i, ref) ==
    /\ ref # <<>>
    /\ i + 1 + Len(ref) <= Len(t)
    /\ t[i] = "+CMGS:" /\ t[i + 1] = " "
    /\ SubSeq(t, i + 2, i + 1 + Len(ref)) = ref
    /\ \A k \in DOMAIN ref : ref[k] \in Digits
    /\ (i + 2 + Len(ref) \in DOMAIN t) => t[i + 2 + Len(ref)] \notin Digits

HasReference(t) ==
    \E i \in DOMAIN t : i + 2 \in DOMAIN t /\ t[i] = "+CMGS:" /\ t[i + 1] = " " /\ t[i + 2] \in Digits

\* C17: the final response text is classified in this order: a numeric
\* reference after "+CMGS:" is success with that reference; else OK is success
\* without a reference; else ERROR is failure, success false and an error text;
\* else success with a warning in the result's error and no error returned.
C17_ClassificationOrder ==
    classified # Nil =>
        LET r == classified[1].result
            e == classified[1].err
        IN IF HasReference(finalResp)
           THEN /\ r.Success /\ e = "" /\ r.Error = ""
                /\ \E i \in DOMAIN finalResp : ReferenceAt(finalResp, i, r.MessageReference)
           ELSE IF \E i \in DOMAIN finalResp : finalResp[i] = "OK"
           THEN r.Success /\ r.MessageReference = <<>> /\ e = "" /\ r.Error = ""
           ELSE IF \E i \in DOMAIN finalResp : finalResp[i] = "ERROR"
           THEN ~r.Success /\ r.MessageReference = <<>> /\ r.Error # "" /\ e # ""
           ELSE r.Success /\ r.MessageReference = <<>> /\ r.Error # "" /\ e = ""

\* A text with ERROR and OK in it and no reference has been classified as
\* success.
C17_Witness ==
    /\ finalResp = <<"ERROR", "\n", "OK">>
    /\ classified # Nil
    /\ classified[1].result.Success /\ classified[1].err = ""

\* The callers that are inside a call of the hardware modem.
InCall == {c \in Callers : variant = "gsm" /\ mpc[c].pc # "idle"}

\* C18: at most one caller is inside a call of the hardware modem, it holds
\* the lock from the call to the return, and only it has the port open: the
\* port operations of two calls never interleave.
C18_ModemLockExclusive ==
    variant = "gsm" =>
        /\ Cardinality(InCall) <= 1
        /\ Cardinality(port) <= 1
        /\ port \subseteq InCall
        /\ \A c \in InCall : mmu = c
        /\ InCall = {} => mmu = Free

\* The worker is in the last step of a send, with the port open, and the
\* status query of the HTTP handler cannot start.
C18_Witness ==
    /\ mpc["worker"].op = "SendSMS" /\ mpc["worker"].pc = "body"
    /\ port = {"worker"}
    /\ mpc["http"].pc = "idle"
    /\ ~ENABLED GetStatusCall("http")

\* C19 as stated: GET /api/status answers 200 when the status query succeeds
\* and 503 when it fails.
C19_StatusErrorIs503 ==
    mret.op = "GetStatus" => mret.http = (IF mret.err = "" THEN 200 ELSE 503)

\* C19, amended: GET /api/status answers 200 in every case.  GetStatus always
\* returns a Status; when the hardware query fails (port not opened, no OK to
\* AT), it is the empty Status, sent with the error text and code 200; the
\* simulator's query never fails.
C19_StatusAlways200 ==
    mret.op = "GetStatus" =>
        /\ mret.status # Nil
        /\ mret.http = 200
        /\ mret.err # "" => (variant = "gsm" /\ mret.status[1] = EmptyStatus)
        /\ (mret.err = "" /\ variant = "gsm") => mret.status[1].Connected

\* A status query has failed because the modem did not answer OK to AT, and
\* the handler has answered 200.
C19_Witness ==
    /\ mret.op = "GetStatus"
    /\ mret.err = "modem not responding"
    /\ mret.io > 1
    /\ mret.http = 200

\* The bucket of a signal value, as C20 gives it.
Bucket(signal) ==
    CASE signal = 99 -> "unknown"
      [] signal # 99 /\ signal < 10 -> "weak"
      [] signal # 99 /\ signal >= 10 /\ signal < 20 -> "fair"
      [] signal # 99 /\ signal >= 20 /\ signal < 30 -> "good"
      [] signal # 99 /\ signal >= 30 -> "excellent"

\* C20: the Status of a status query that returned no error has a
\* signal_strength_desc among weak, fair, good, excellent, unknown, and it is
\* the bucket of its signal_strength.
C20_SignalDescIsBucket ==
    (mret.op = "GetStatus" /\ mret.err = "") =>
        /\ mret.status[1].SignalStrengthDesc \in {"weak", "fair", "good", "excellent", "unknown"}
        /\ mret.status[1].SignalStrengthDesc = Bucket(mret.status[1].SignalStrength)

\* C21: on one simulator instance, whatever the interleaving of the send
\* calls, a send with non-empty arguments returns success with a numeric
\* reference, the references handed out are 1, 2, 3, ... (each return takes
\* the counter one up and reports its new value, nothing else moves it), and a
\* send that fails the checks leaves the counter alone.
C21_SimulatorReferences ==
    [][variant = "sim" =>
         IF mret'.op = "SendSMS"
         THEN IF mret'.phone # "" /\ mret'.message # ""
              THEN /\ mret'.err = ""
                   /\ mret'.result[1].Success
                   /\ mret'.result[1].Error = ""
                   /\ mret'.result[1].MessageReference # <<>>
                   /\ \A k \in DOMAIN mret'.result[1].MessageReference :
                        mret'.result[1].MessageReference[k] \in Digits
                   /\ Decimal(mret'.result[1].MessageReference) = msgRef + 1
                   /\ msgRef' = msgRef + 1
              ELSE /\ mret'.err # ""
                   /\ msgRef' = msgRef
         ELSE msgRef' = msgRef]_vars

\* Two sends ran at the same time on the simulator: the HTTP caller's has
\* returned with reference 1 while the worker's, called before that, is
\* still asleep.
C21_Witness ==
    /\ variant = "sim"
    /\ mret.op = "SendSMS" /\ mret.caller = "http"
    /\ mret.result[1].Success
    /\ mret.result[1].MessageReference = <<"1">>
    /\ msgRef = 1
    /\ mpc["worker"].op = "SendSMS" /\ mpc["worker"].pc = "sleep"

\* The commands of a log, in the order they were written.
Commands(log) == [i \in DOMAIN log |-> log[i].cmd]

\* An answer in which OK came back.
AnsweredOK(entry) == entry.err = "" /\ \E k \in DOMAIN entry.resp : entry.resp[k] = "OK"

\* C22: in the hardware status query only step 1 aborts.  Once the port is
\* open and the answer to AT holds OK, the four other commands are all issued
\* and GetStatus returns connected and no error, whatever came of them; when
\* the answer to AT lacks OK (or AT could not be written), GetStatus returns an
\* error, not connected, and AT is the last command it issued.
C22_OnlyATAborts ==
    /\ \A c \in Callers :
         (mpc[c].op = "GetStatus" /\ mpc[c].pc \in {"CGMI", "CGMM", "CREG", "CSQ"}) =>
             /\ mpc[c].status.Connected
             /\ AnsweredOK(mpc[c].log[3])
    /\ (variant = "gsm" /\ mret.op = "GetStatus") =>
         IF Len(mret.log) >= 3
         THEN /\ SubSeq(Commands(mret.log), 1, 3) = <<"open", "timeout", "AT">>
              /\ IF AnsweredOK(mret.log[3])
                 THEN /\ Commands(mret.log) = <<"open", "timeout", "AT", "AT+CGMI", "AT+CGMM",
                                                "AT+CREG?", "AT+CSQ">>
                      /\ mret.err = ""
                      /\ mret.status[1].Connected
                 ELSE /\ Len(mret.log) = 3
                      /\ mret.err = "modem not responding"
                      /\ ~mret.status[1].Connected
         ELSE /\ mret.err = "modem not accessible"
              /\ ~mret.status[1].Connected

\* A status query has returned connected and no error after AT was answered
\* OK, the manufacturer command could not be written, the model command was
\* answered ERROR, the registration answer did not parse and the signal
\* command was not answered at all.
C22_Witness ==
    /\ mret.op = "GetStatus" /\ mret.err = ""
    /\ mret.status[1].Connected
    /\ Len(mret.log) = 7
    /\ mret.log[4].err # ""
    /\ mret.log[5].resp = <<"ERROR">>
    /\ mret.log[6].resp = <<"+CREG: ", "\n", "OK">>
    /\ mret.log[7].err = "" /\ mret.log[7].resp = <<>>

\* A status query has returned an error right after AT was answered ERROR.
C22_WitnessAbort ==
    /\ mret.op = "GetStatus" /\ mret.err = "modem not responding"
    /\ Len(mret.log) = 3
    /\ mret.log[3].resp = <<"ERROR">>

\* The status digit of a registration answer, "+CREG: <digit>,<digit>" at its
\* leftmost, "" when the answer holds none.
RegistrationDigit(resp) ==
    LET at == {i \in DOMAIN resp :
                  /\ i + 3 \in DOMAIN resp
                  /\ resp[i] = "+CREG: " /\ resp[i + 1] \in Digits
                  /\ resp[i + 2] = "," /\ resp[i + 3] \in Digits}
    IN IF at = {} THEN "" ELSE resp[(CHOOSE i \in at : \A j \in at : i <= j) + 3]

\* A registration answer with a status digit that is neither 1 nor 5.
BadDigit(entry) ==
    entry.err = "" /\ RegistrationDigit(entry.resp) \notin {"", "1", "5"}

\* The operations of a hardware send, in order.
SendSteps ==
    <<"open", "timeout", "AT", "AT+CMGF=1", "AT+CSCS", "AT+CSMP", "AT+CREG?", "AT+CMGS", "body">>

\* The logs of the hardware sends in progress and of the one that has just
\* returned.
SendLogs ==
    {mpc[c].log : c \in {d \in Callers : mpc[d].op = "SendSMS" /\ variant = "gsm"}}
        \cup (IF variant = "gsm" /\ mret.op = "SendSMS" THEN {mret.log} ELSE {})

\* C23: in the hardware send a command is written only when the steps before
\* it let the call go on: AT and AT+CMGF=1 were answered OK before anything
\* after them, and AT+CMGS and the body are written only when moreover the
\* registration answer held no status digit other than 1 or 5.  The call never
\* ends at the character-set or at the message-parameter command, and ends at
\* the registration command only for such a digit; a call that ends at AT,
\* AT+CMGF=1 or AT+CREG? returns a failure, with that command its last.
C23_FatalSteps ==
    /\ \A log \in SendLogs :
         /\ Commands(log) = SubSeq(SendSteps, 1, Len(log))
         /\ Len(log) >= 4 => AnsweredOK(log[3])
         /\ Len(log) >= 5 => AnsweredOK(log[4])
         /\ Len(log) >= 8 => ~BadDigit(log[7])
    /\ (variant = "gsm" /\ mret.op = "SendSMS" /\ mret.log # <<>>) =>
         /\ Len(mret.log) \notin {5, 6}
         /\ Len(mret.log) = 3 => ~AnsweredOK(mret.log[3])
         /\ Len(mret.log) = 4 => ~AnsweredOK(mret.log[4])
         /\ Len(mret.log) = 7 => BadDigit(mret.log[7])
         /\ Len(mret.log) \in {3, 4, 7} => (mret.err # "" /\ ~mret.result[1].Success)

\* A send has gone through to the body although the character-set command
\* could not be written, the message-parameter command was answered ERROR and
\* the registration answer did not parse.
C23_Witness ==
    /\ mret.op = "SendSMS"
    /\ Len(mret.log) = 9
    /\ mret.log[5].err # ""
    /\ mret.log[6].resp = <<"ERROR">>
    /\ mret.log[7].resp = <<"+CREG: ", "\n", "OK">>
    /\ mret.log[9].err = ""
    /\ mret.result[1].Success

\* C24: the hardware send writes the message body (with its Ctrl+Z) only
\* after the poll for the prompt has returned a text that holds ">" and does
\* not hold ERROR; no body is written when the poll ran to its deadline with
\* neither marker.
C24_BodyOnlyAfterPrompt ==
    \A log \in SendLogs :
        Len(log) >= 9 =>
            /\ log[8].cmd = "AT+CMGS" /\ log[9].cmd = "body"
            /\ log[8].err = ""
            /\ \E k \in DOMAIN log[8].resp : log[8].resp[k] = ">"
            /\ \A k \in DOMAIN log[8].resp : log[8].resp[k] # "ERROR"

\* The chunks put together again.
RECURSIVE Flatten(_)
Flatten(reads) == IF reads = <<>> THEN <<>> ELSE Head(reads) \o Flatten(Tail(reads))

\* The poll for the final response was not cut short by its deadline: it
\* returned on a marker or had read everything the modem transmitted.
WithinDeadline ==
    \/ chunks = <<>>
    \/ \E k \in DOMAIN finalResp : finalResp[k] \in {"+CMGS:", "OK", "ERROR"}

\* C25: the outcome of the hardware send does not depend on how the reads cut
\* the modem's final response: when the modem transmits "+CMGS: 42" followed by
\* OK within the deadline, the send is classified as success with message
\* reference 42 for every chunking.
C25_ChunkingIndependent ==
    ( /\ classified # Nil
      /\ WithinDeadline
      /\ finalResp \o Flatten(chunks) \in {<<"+CMGS:", " ", "4", "2", "\n", "OK">>,
                                          <<"\n", "+CMGS:", " ", "4", "2", "\n", "OK">>} ) =>
        /\ classified[1].err = ""
        /\ classified[1].result.Success
        /\ classified[1].result.MessageReference = <<"4", "2">>

\* The job process leaves behind when the send it made has returned what the
\* modem has just returned.
Processed(id) ==
    Finished(Sending(NewJob(id, mret.phone, mret.message, 0), 0),
             [result |-> mret.result, err |-> mret.err], 0)

\* The hardware send that has just returned ran into the deadline of the poll
\* for the final response with no marker read.
Ambiguous ==
    /\ variant = "gsm" /\ mret.op = "SendSMS"
    /\ Len(mret.log) = 9
    /\ mret.log[9].err = ""
    /\ \A k \in DOMAIN mret.log[9].resp : mret.log[9].resp[k] \notin {"+CMGS:", "OK", "ERROR"}

\* C26: whatever a send returns, the job process makes of it is sent exactly
\* when its result has success true and failed exactly when its error text is
\* not empty.  The ambiguous outcome gives a sent job, success true, a warning
\* in the result's error and no job error; every return of the send with an
\* error gives a failed job with success false.
C26_SentIffSuccess ==
    mret.op = "SendSMS" =>
        \A id \in IDs :
            LET job == Processed(id)
            IN /\ job.Status \in {StatusSent, StatusFailed}
               /\ job.Result # Nil
               /\ job.Status = StatusSent <=> job.Result[1].Success
               /\ job.Status = StatusFailed <=> job.Error # ""
               /\ Ambiguous => /\ job.Status = StatusSent
                               /\ job.Result[1].Success
                               /\ job.Result[1].Error # ""
                               /\ job.Error = ""
               /\ mret.err # "" => (job.Status = StatusFailed /\ ~job.Result[1].Success)

\* A hardware send has returned the ambiguous outcome: the body was written,
\* nothing came back before the deadline, and the result is success with the
\* warning.
C26_Witness ==
    /\ Ambiguous
    /\ mret.log[9].resp = <<>>
    /\ mret.err = ""
    /\ mret.result[1].Success
    /\ mret.result[1].Error = "uncertain result"

\* C27: a hardware call opens the port at most once; when it returns, on
\* whatever path, its port is closed and the lock is free, so that with nobody
\* in a call no port is open and any caller can start a call.
C27_PortClosedLockReleased ==
    variant = "gsm" =>
        /\ \A c \in Callers :
             /\ Cardinality({i \in DOMAIN mpc[c].log :
                                mpc[c].log[i].cmd = "open" /\ mpc[c].log[i].err = ""}) <= 1
             /\ c \in port => mpc[c].pc \notin {"idle", "open"}
        /\ mret.op # "none" =>
             /\ Cardinality({i \in DOMAIN mret.log :
                                mret.log[i].cmd = "open" /\ mret.log[i].err = ""}) <= 1
             /\ mret.caller \notin port
             /\ port = {}
             /\ mmu = Free
        /\ (\A c \in Callers : mpc[c].pc = "idle") =>
             /\ port = {}
             /\ mmu = Free
             /\ \A c \in Callers : ENABLED GetStatusCall(c)

\* A call has returned because the read timeout could not be set on the port
\* it had opened: the port is closed again and the lock is free.
C27_Witness ==
    /\ variant = "gsm"
    /\ mret.op = "SendSMS"
    /\ Len(mret.log) = 2
    /\ mret.log[1].cmd = "open" /\ mret.log[1].err = ""
    /\ mret.log[2].cmd = "timeout" /\ mret.log[2].err # ""
    /\ port = {}
    /\ mmu = Free

====
